---------------------------- MODULE Spec2Model ----------------------------
(***************************************************************************)
(* Model of conanfile.py (class MachuEmuPackageTest): the generate() pass  *)
(* that fills a CMakeToolchain's cache_variables from the resolved         *)
(* dependencies and the host OS, and writes the toolchain with             *)
(* tc.generate().                                                          *)
(*                                                                         *)
(* A path is a sequence of one-character strings.  A Python exception is   *)
(* the record built by Raise; a value is the record built by Return.       *)
(***************************************************************************)
EXTENDS Naturals, Sequences, FiniteSets

VARIABLES
    os,               \* self.settings.os
    dependencies,     \* self.dependencies: name -> resolved metadata
    deps_generated,   \* CMakeDeps(self).generate() has run
    cache_variables,  \* tc.cache_variables, in insertion order
    toolchain,        \* the variables written by tc.generate()
    written,          \* tc.generate() has written the toolchain
    pc,               \* the line of generate() about to run, or done/failed
    err               \* the exception generate() ended with

vars == <<os, dependencies, deps_generated, cache_variables, toolchain, written, pc, err>>

(* ------------------------------ bounds -------------------------------- *)

\* Longest path, in characters, a binary directory has.
MaxPathLen == 2

\* Most entries a dependency's bindirs list has.
MaxDirs == 2

(* ------------------------------ inputs -------------------------------- *)

DepNames == {"mach_emu", "sdl", "sdl_mixer", "zlib"}

OSes == {"Windows", "Linux"}

\* A backslash, a forward slash, and a character that is neither.
Chars == {"\\", "/", "a"}

Paths == UNION {[1..n -> Chars] : n \in 0..MaxPathLen}

\* The path every directory after the first has, and the directory of a
\* dependency that is not the irregular one.
DefaultPath == <<"a">>

\* bindirs with any first directory.
BinDirLists ==
    {<<>>} \cup
    {<<p>> \o [i \in 1..n |-> DefaultPath] : p \in Paths, n \in 0..(MaxDirs - 1)}

\* The values of a boolean Conan option; Undefined: the package has no such option.
Undefined == "Undefined"

OptionValues == {"True", "False"}

\* The one option generate() reads of each dependency.
OptionRead(d) == IF d = "mach_emu" THEN "with_zlib" ELSE "shared"

Options(d, v) ==
    [n \in {"shared", "with_zlib"} |-> IF n = OptionRead(d) THEN v ELSE Undefined]

\* No entry of that name in self.dependencies.
Absent == [present |-> FALSE, options |-> Options("", Undefined), bindirs |-> <<>>]

Resolved(d, v, dirs) == [present |-> TRUE, options |-> Options(d, v), bindirs |-> dirs]

\* Any metadata the resolver can hand over for d.
AnyMetadata(d) ==
    {Absent} \cup
    {Resolved(d, v, dirs) : v \in OptionValues \cup {Undefined}, dirs \in BinDirLists}

\* Absent, or resolved with the option set and at most one default directory.
RegularMetadata(d) ==
    {Absent} \cup
    {Resolved(d, v, dirs) : v \in OptionValues, dirs \in {<<>>, <<DefaultPath>>}}

(* ------------------------- pure helpers ------------------------------- *)

Raise(kind) == [raised |-> TRUE, kind |-> kind, value |-> <<>>]

Return(v) == [raised |-> FALSE, kind |-> "", value |-> v]

\* Mutant of Truthy: the truth value of the option's string, bool("False").
TruthyString(v) == v # ""

\* bool(option): Conan's option values are the strings "True" and "False".
Truthy(v) == v = "True"

\* Mutant of Replace: s.replace(old, new, 1), the first occurrence only.
ReplaceFirst(s, old, new) ==
    [i \in 1..Len(s) |->
        IF s[i] = old /\ (\A j \in 1..(i - 1) : s[j] # old) THEN new ELSE s[i]]

\* s.replace(old, new) for one-character old and new.
Replace(s, old, new) == [i \in 1..Len(s) |-> IF s[i] = old THEN new ELSE s[i]]

\* Mutant of Normalize: path.replace("\\", ""), the backslashes deleted.
NormalizeDelete(path) ==
    LET keep == {i \in 1..Len(path) : path[i] # "\\"}
        nth(k) == CHOOSE i \in keep : Cardinality({j \in keep : j < i}) = k - 1
    IN [k \in 1..Cardinality(keep) |-> path[nth(k)]]

\* path.replace("\\", "/")
Normalize(path) == Replace(path, "\\", "/")

\* self.dependencies[d]: KeyError when d is not in the dependency set.
Dependency(d) ==
    IF dependencies[d].present THEN Return(dependencies[d]) ELSE Raise("KeyError")

\* Mutant of Option: a dependency that is not resolved counts as option off.
OptionLenient(d, name) ==
    IF ~dependencies[d].present THEN Return(FALSE)
    ELSE IF dependencies[d].options[name] = Undefined THEN Raise("ConanException")
    ELSE Return(dependencies[d].options[name] = "True")

\* self.dependencies[d].options.<name>, as a condition.
Option(d, name) ==
    LET dep == Dependency(d) IN
    IF dep.raised THEN dep
    ELSE IF dep.value.options[name] = Undefined THEN Raise("ConanException")
    ELSE Return(Truthy(dep.value.options[name]))

\* Mutant of BinDir: bindirs[-1], the last directory.
BinDirLast(d) ==
    IF ~dependencies[d].present THEN Raise("KeyError")
    ELSE IF dependencies[d].bindirs = <<>> THEN Raise("IndexError")
    ELSE Return([i \in 1..Len(dependencies[d].bindirs[Len(dependencies[d].bindirs)]) |->
                    IF dependencies[d].bindirs[Len(dependencies[d].bindirs)][i] = "\\"
                    THEN "/"
                    ELSE dependencies[d].bindirs[Len(dependencies[d].bindirs)][i]])

\* Mutant of BinDir: next(iter(bindirs), ""), an empty list gives the empty path.
BinDirOrEmpty(d) ==
    IF ~dependencies[d].present THEN Raise("KeyError")
    ELSE IF dependencies[d].bindirs = <<>> THEN Return(<<>>)
    ELSE Return([i \in 1..Len(dependencies[d].bindirs[1]) |->
                    IF dependencies[d].bindirs[1][i] = "\\" THEN "/"
                    ELSE dependencies[d].bindirs[1][i]])

\* self.dependencies[d].cpp_info.bindirs[0].replace("\\", "/")
BinDir(d) ==
    LET dep == Dependency(d) IN
    IF dep.raised THEN dep
    ELSE IF dep.value.bindirs = <<>> THEN Raise("IndexError")
    ELSE Return(Normalize(dep.value.bindirs[1]))

\* Mutant of OnWindows: the OS test of line 65 dropped.
OnAnyOS == os \in OSes

\* self.settings.os == "Windows"
OnWindows == os = "Windows"

\* The condition of line 65, evaluated left to right with short-circuit `and`.
ZlibCondition ==
    IF ~OnWindows THEN Return(FALSE)
    ELSE LET w == Option("mach_emu", "with_zlib") IN
         IF w.raised THEN w
         ELSE IF ~w.value THEN Return(FALSE)
         ELSE Option("zlib", "shared")

\* The keys of a sequence of variables.
Keys(cv) == {cv[i].key : i \in 1..Len(cv)}

\* d[key] = value on an insertion-ordered dict.
SetItem(cv, key, value) ==
    IF key \in Keys(cv)
    THEN [i \in 1..Len(cv) |-> IF cv[i].key = key THEN [key |-> key, value |-> value] ELSE cv[i]]
    ELSE Append(cv, [key |-> key, value |-> value])

(* ------------------------------ state --------------------------------- *)

\* The metadata d can have when f is the irregular dependency.
MetadataFor(f, d) == IF d = f THEN AnyMetadata(d) ELSE RegularMetadata(d)

\* One dependency (the irregular one) has any metadata, the others regular metadata.
Init ==
    /\ os \in OSes
    /\ \E f \in DepNames :
          \E me \in MetadataFor(f, "mach_emu"), sd \in MetadataFor(f, "sdl"),
             sm \in MetadataFor(f, "sdl_mixer"), zl \in MetadataFor(f, "zlib") :
              dependencies =
                  [d \in DepNames |->
                      CASE d = "mach_emu" -> me
                        [] d = "sdl" -> sd
                        [] d = "sdl_mixer" -> sm
                        [] OTHER -> zl]
    /\ deps_generated = FALSE
    /\ cache_variables = <<>>
    /\ toolchain = <<>>
    /\ written = FALSE
    /\ pc = "l53"
    /\ err = ""

\* Mutant of Fail: tc.generate() in a finally clause, run on the way out.
FailAfterGenerate(kind) ==
    /\ pc' = "failed"
    /\ err' = kind
    /\ toolchain' = cache_variables
    /\ written' = TRUE
    /\ UNCHANGED <<os, dependencies, deps_generated, cache_variables>>

\* An exception leaves generate(): tc.generate() is never reached.
Fail(kind) ==
    /\ pc' = "failed"
    /\ err' = kind
    /\ UNCHANGED <<os, dependencies, deps_generated, cache_variables, toolchain, written>>

\* The statement completed; control moves to the next line.
Goto(cv, next) ==
    /\ cache_variables' = cv
    /\ pc' = next
    /\ UNCHANGED <<os, dependencies, deps_generated, toolchain, written, err>>

\* if cond: tc.cache_variables[key] = <first bindir of d>
AssignIf(cond, key, d, next) ==
    IF cond.raised THEN Fail(cond.kind)
    ELSE IF ~cond.value THEN Goto(cache_variables, next)
    ELSE LET dir == BinDir(d) IN
         IF dir.raised THEN Fail(dir.kind)
         ELSE Goto(SetItem(cache_variables, key, dir.value), next)

\* lines 53-55
CreateToolchain ==
    /\ pc = "l53"
    /\ deps_generated' = TRUE
    /\ cache_variables' = <<>>
    /\ pc' = "l57"
    /\ UNCHANGED <<os, dependencies, toolchain, written, err>>

\* Mutant of SetMachEmuBinDir: the assignment guarded by `"mach_emu" in deps`.
SetMachEmuBinDirIfPresent ==
    /\ pc = "l57"
    /\ IF dependencies["mach_emu"].present
       THEN AssignIf(Return(TRUE), "machEmuBinDir", "mach_emu", "l59")
       ELSE Goto(cache_variables, "l59")

\* line 57
SetMachEmuBinDir ==
    /\ pc = "l57"
    /\ AssignIf(Return(TRUE), "machEmuBinDir", "mach_emu", "l59")

\* lines 59-60
SetSdlBinDir ==
    /\ pc = "l59"
    /\ AssignIf(Option("sdl", "shared"), "sdlBinDir", "sdl", "l62")

\* lines 62-63
SetSdlMixerBinDir ==
    /\ pc = "l62"
    /\ AssignIf(Option("sdl_mixer", "shared"), "sdlMixerBinDir", "sdl_mixer", "l65")

\* lines 65-66
SetZlibBinDir ==
    /\ pc = "l65"
    /\ AssignIf(ZlibCondition, "zlibBinDir", "zlib", "l68")

\* line 68
GenerateToolchain ==
    /\ pc = "l68"
    /\ toolchain' = cache_variables
    /\ written' = TRUE
    /\ pc' = "done"
    /\ UNCHANGED <<os, dependencies, deps_generated, cache_variables, err>>

Next ==
    \/ CreateToolchain
    \/ SetMachEmuBinDir
    \/ SetSdlBinDir
    \/ SetSdlMixerBinDir
    \/ SetZlibBinDir
    \/ GenerateToolchain

Spec == Init /\ [][Next]_vars

(* ------------------- vocabulary of the properties --------------------- *)

VarKeys == {"machEmuBinDir", "sdlBinDir", "sdlMixerBinDir", "zlibBinDir"}

\* The dependency whose binary directory a key reports.
DepOfKey(k) ==
    CASE k = "machEmuBinDir" -> "mach_emu"
      [] k = "sdlBinDir" -> "sdl"
      [] k = "sdlMixerBinDir" -> "sdl_mixer"
      [] OTHER -> "zlib"

KeyOfDep(d) == CHOOSE k \in VarKeys : DepOfKey(k) = d

Present(d) == dependencies[d].present

\* d is resolved and its option `name` has the value v.
OptionIs(d, name, v) == Present(d) /\ dependencies[d].options[name] = v

FirstDir(d) == dependencies[d].bindirs[1]

NoDirs(d) == dependencies[d].bindirs = <<>>

Terminal == pc \in {"done", "failed"}

\* How many entries of cv have key k, and the value of the first of them.
Count(cv, k) == Cardinality({i \in 1..Len(cv) : cv[i].key = k})

ValueOf(cv, k) == cv[CHOOSE i \in 1..Len(cv) : cv[i].key = k].value

\* The same path up to the kind of separator.
SamePath(a, b) ==
    /\ Len(a) = Len(b)
    /\ \A i \in 1..Len(a) : a[i] = b[i] \/ {a[i], b[i]} \subseteq {"\\", "/"}

\* The three conditions of the compression-library variable, read off the inputs.
ZlibTriple ==
    /\ os = "Windows"
    /\ OptionIs("mach_emu", "with_zlib", "True")
    /\ OptionIs("zlib", "shared", "True")

\* The keys the inputs call for.
DueKeys ==
    {"machEmuBinDir"}
    \cup (IF OptionIs("sdl", "shared", "True") THEN {"sdlBinDir"} ELSE {})
    \cup (IF OptionIs("sdl_mixer", "shared", "True") THEN {"sdlMixerBinDir"} ELSE {})
    \cup (IF ZlibTriple THEN {"zlibBinDir"} ELSE {})

\* d is resolved with everything generate() reads of it.
Usable(d) == Present(d) /\ dependencies[d].options[OptionRead(d)] # Undefined /\ ~NoDirs(d)

\* Line 57 completes.
MachEmuDone == Present("mach_emu") /\ ~NoDirs("mach_emu")

\* The if-statement of a multimedia dependency completes.
SharedDone(d) ==
    /\ Present(d)
    /\ dependencies[d].options["shared"] # Undefined
    /\ (OptionIs(d, "shared", "True") => ~NoDirs(d))

\* generate() reaches bindirs[0] of d, and the list is empty.
EmptyDue(d) ==
    CASE d = "mach_emu" -> Present(d) /\ NoDirs(d)
      [] d = "sdl" -> MachEmuDone /\ OptionIs(d, "shared", "True") /\ NoDirs(d)
      [] d = "sdl_mixer" ->
            MachEmuDone /\ SharedDone("sdl") /\ OptionIs(d, "shared", "True") /\ NoDirs(d)
      [] OTHER ->
            /\ MachEmuDone /\ SharedDone("sdl") /\ SharedDone("sdl_mixer")
            /\ ZlibTriple /\ NoDirs(d)

(* ------------------------------ C1 ------------------------------------ *)

\* C1: a completed pass has written zlibBinDir if and only if the OS is
\* Windows, mach_emu.with_zlib is true and zlib.shared is true.
C1_ZlibIffTriple ==
    pc = "done" => (("zlibBinDir" \in Keys(toolchain)) <=> ZlibTriple)

C1_Witness == pc = "done" /\ ZlibTriple /\ "zlibBinDir" \in Keys(toolchain)

(* ------------------------------ C2 ------------------------------------ *)

\* C2: a completed pass has written sdlBinDir iff sdl.shared is true and
\* sdlMixerBinDir iff sdl_mixer.shared is true, each whatever the other,
\* the OS and the zlib options are.
C2_MultimediaIffShared ==
    pc = "done" =>
        /\ ("sdlBinDir" \in Keys(toolchain)) <=> OptionIs("sdl", "shared", "True")
        /\ ("sdlMixerBinDir" \in Keys(toolchain)) <=> OptionIs("sdl_mixer", "shared", "True")

C2_Witness ==
    /\ pc = "done"
    /\ "sdlBinDir" \in Keys(toolchain)
    /\ "sdlMixerBinDir" \notin Keys(toolchain)
    /\ OptionIs("sdl_mixer", "shared", "False")

(* ------------------------------ C3 ------------------------------------ *)

\* C3: every completed pass has written machEmuBinDir, and its value is the
\* first binary directory of mach_emu (with forward-slash separators),
\* whatever the OS and the options are.
C3_MachEmuAlways ==
    pc = "done" =>
        /\ Count(toolchain, "machEmuBinDir") = 1
        /\ SamePath(ValueOf(toolchain, "machEmuBinDir"), FirstDir("mach_emu"))

C3_Witness ==
    /\ pc = "done"
    /\ os = "Linux"
    /\ Keys(toolchain) = {"machEmuBinDir"}
    /\ Len(dependencies["mach_emu"].bindirs) > 1
    /\ FirstDir("mach_emu") = <<"/", "a">>

(* ------------------------------ C4 ------------------------------------ *)

\* C4: with no mach_emu entry generate() fails with the missing-dependency
\* error (KeyError) at line 57: no later line runs, no variable is ever
\* assigned and nothing is written.
C4_MissingMachEmuFailsFirst ==
    ~Present("mach_emu") =>
        /\ pc \in {"l53", "l57", "failed"}
        /\ pc = "failed" => err = "KeyError"
        /\ cache_variables = <<>>
        /\ toolchain = <<>>
        /\ ~written

C4_Witness ==
    /\ pc = "failed"
    /\ ~Present("mach_emu")
    /\ OptionIs("sdl", "shared", "True")
    /\ ~NoDirs("sdl")

(* ------------------------------ C5 ------------------------------------ *)

\* mach_emu is usable and each other dependency is usable or absent.
OnlyAbsences == Usable("mach_emu") /\ \A d \in DepNames : Usable(d) \/ ~Present(d)

\* A dependency generate() looks up is absent.
AbsentLookup ==
    \/ ~Present("sdl")
    \/ ~Present("sdl_mixer")
    \/ (os = "Windows" /\ OptionIs("mach_emu", "with_zlib", "True") /\ ~Present("zlib"))

\* C5 as stated: with mach_emu present, an absent sdl, sdl_mixer or zlib entry
\* never makes generate() fail; the pass completes with the variables of the
\* dependencies that are present.
C5_AbsenceTolerated ==
    (Terminal /\ OnlyAbsences) => (pc = "done" /\ Keys(toolchain) = DueKeys)

\* C5 as amended: with mach_emu present, an absent entry that generate() looks
\* up (sdl, sdl_mixer, or zlib on Windows with with_zlib true) fails the pass
\* with KeyError and nothing written; an absent zlib that is not looked up is
\* tolerated and the pass completes with the variables due.
C5_AbsenceFailsWhenLookedUp ==
    (Terminal /\ OnlyAbsences) =>
        IF AbsentLookup
        THEN pc = "failed" /\ err = "KeyError" /\ toolchain = <<>> /\ ~written
        ELSE pc = "done" /\ Keys(toolchain) = DueKeys

C5_Witness ==
    /\ pc = "failed"
    /\ OnlyAbsences
    /\ Present("sdl")
    /\ ~Present("sdl_mixer")
    /\ Keys(cache_variables) = {"machEmuBinDir", "sdlBinDir"}

(* ------------------------------ C6 ------------------------------------ *)

\* C6: a pass that fails, at whatever line and whatever it had assigned, has
\* written no variable; a toolchain is written only by a completed pass and
\* then holds exactly the keys the inputs call for.
C6_AllOrNothing ==
    /\ pc = "failed" => (toolchain = <<>> /\ ~written)
    /\ ~written => toolchain = <<>>
    /\ written => (pc = "done" /\ Keys(toolchain) = DueKeys)

C6_Witness ==
    /\ pc = "failed"
    /\ Len(cache_variables) = 3
    /\ toolchain = <<>>

(* ------------------------------ C7 ------------------------------------ *)

\* C7 as stated: every key is written exactly once with a non-empty value, or
\* not at all.
C7_OnceAndNonEmpty ==
    \A k \in VarKeys :
        \/ Count(toolchain, k) = 0
        \/ Count(toolchain, k) = 1 /\ ValueOf(toolchain, k) # <<>>

\* C7 as amended: every key is written exactly once or not at all, and a
\* written value is empty exactly when the first binary directory of its
\* dependency is the empty string.
C7_OnceAndEmptyOnlyFromEmpty ==
    \A k \in VarKeys :
        \/ Count(toolchain, k) = 0
        \/ /\ Count(toolchain, k) = 1
           /\ ValueOf(toolchain, k) = <<>> <=> FirstDir(DepOfKey(k)) = <<>>

C7_Witness ==
    /\ pc = "done"
    /\ ~NoDirs("sdl")
    /\ FirstDir("sdl") = <<>>
    /\ Count(toolchain, "sdlBinDir") = 1
    /\ ValueOf(toolchain, "sdlBinDir") = <<>>

(* ------------------------------ C8 ------------------------------------ *)

\* v is src with each backslash turned into a forward slash.
Slashed(v, src) ==
    /\ Len(v) = Len(src)
    /\ \A j \in 1..Len(src) : v[j] = (IF src[j] = "\\" THEN "/" ELSE src[j])
    /\ \A j \in 1..Len(v) : v[j] # "\\"

\* C8: every value assigned or written holds no backslash; it is the first
\* binary directory of its dependency with each backslash replaced by a
\* forward slash and every other character kept in place, and normalizing it
\* again changes nothing.
C8_ForwardSlashesOnly ==
    \A cv \in {cache_variables, toolchain} :
        \A i \in 1..Len(cv) :
            /\ Slashed(cv[i].value, FirstDir(DepOfKey(cv[i].key)))
            /\ Normalize(cv[i].value) = cv[i].value

C8_Witness ==
    /\ pc = "done"
    /\ \E k \in Keys(toolchain) :
          /\ FirstDir(DepOfKey(k)) = <<"\\", "\\">>
          /\ ValueOf(toolchain, k) = <<"/", "/">>

(* ------------------------------ C9 ------------------------------------ *)

\* C9 as stated: when generate() reaches a due dependency whose bindirs list
\* is empty, it fails with the error of missing dependency metadata (the
\* KeyError of C4).
C9_EmptyDirsConfigurationError ==
    \A d \in DepNames :
        (Terminal /\ EmptyDue(d)) => (pc = "failed" /\ err = "KeyError")

\* C9 as amended: when generate() reaches a due dependency whose bindirs list
\* is empty, it fails with IndexError, an error kind of its own; the key of
\* that dependency is never assigned and nothing is written.
C9_EmptyDirsIndexError ==
    \A d \in DepNames :
        EmptyDue(d) =>
            /\ Terminal => (pc = "failed" /\ err = "IndexError")
            /\ KeyOfDep(d) \notin Keys(cache_variables)
            /\ toolchain = <<>>
            /\ ~written

C9_Witness ==
    /\ pc = "failed"
    /\ err = "IndexError"
    /\ EmptyDue("zlib")
    /\ Len(cache_variables) = 3

=============================================================================
